---- MODULE Spec2Model ----
(***************************************************************************)
(* Home Management Hub: the localStorage persistence layer (storage.js)    *)
(* and the domain modules built on it (meals, tasks, shopping, planner).   *)
(*                                                                         *)
(* JavaScript objects are modelled as functions over their property names  *)
(* (a missing property is a name outside the DOMAIN), arrays as sequences. *)
(* localStorage holds JSON text; the model keeps the value that            *)
(* JSON.parse(JSON.stringify(doc)) yields.  The module-level object        *)
(* defaultData is state: loadData() hands out its arrays and sub-objects   *)
(* by reference, so handlers that mutate what they loaded can mutate it.   *)
(***************************************************************************)
EXTENDS Integers, Sequences, FiniteSets, TLC

\* Bounds of the model.
MaxId == 2
MaxDue == 91
MaxItemId == 5

VARIABLES
    store,        \* localStorage[STORAGE_KEY]: <<>> (no item) or <<document>>
    defaultData,  \* the in-memory defaultData object of the current page
    tz,           \* the browser's time zone
    now,          \* the day "new Date()" falls on
    nextId,       \* source of generateId()
    op,           \* name of the last operation called
    args,         \* its arguments
    ret,          \* what it returned, or that it threw
    saved,        \* FALSE iff a saveData() of the last operation failed
    supported,    \* 'Notification' in window
    permission,   \* Notification.permission
    interval,     \* TRUE iff the hourly timer of initNotifications is set
    created,      \* the notifications the last step created (new Notification)
    fetched,      \* the upstream requests the server made for the last request
    tabs          \* the addMeal each of two tabs is in the middle of

\* the notification platform of the page
notif == <<supported, permission, interval, created>>

vars == <<store, defaultData, tz, now, nextId, op, args, ret, saved, notif, fetched, tabs>>

----------------------------------------------------------------------------
\* JavaScript values

Null == "null"
Undefined == "undefined"
EmptyObj == [k \in {} |-> Null]

Range(s) == {s[i] : i \in DOMAIN s}

\* { ...a, ...b }
Spread(a, b) ==
    [k \in DOMAIN a \cup DOMAIN b |-> IF k \in DOMAIN b THEN b[k] ELSE a[k]]

\* obj[key] = value
SetProp(obj, key, value) == Spread(obj, [k \in {key} |-> value])

\* array.findIndex(x => x.id === id), 0 for -1
FindIndex(s, id) ==
    IF \E i \in DOMAIN s : s[i].id = id
    THEN CHOOSE i \in DOMAIN s : s[i].id = id /\ \A j \in 1..(i - 1) : s[j].id # id
    ELSE 0

\* new Date().toISOString()
ISO(day) == ToString(day)

----------------------------------------------------------------------------
\* storage.js

DAYS == <<"Monday", "Tuesday", "Wednesday", "Thursday", "Friday", "Saturday", "Sunday">>

ListSections == {"meals", "shoppingList", "householdItems", "cleaningTasks", "maintenanceTasks"}
Sections == ListSections \cup {"weeklyPlan", "settings"}

\* the object literal defaultData as the module is loaded
InitialDefaultData ==
    [meals |-> <<>>,
     weeklyPlan |-> [d \in Range(DAYS) |-> <<>>],
     shoppingList |-> <<>>,
     householdItems |-> <<>>,
     cleaningTasks |-> <<>>,
     maintenanceTasks |-> <<>>,
     settings |-> [notificationsEnabled |-> FALSE, notifyMeals |-> TRUE,
                   notifyCleaning |-> TRUE, notifyShopping |-> TRUE,
                   lastExport |-> Null]]

\* JSON.parse(JSON.stringify(obj)) of a flat object: a property whose value is
\* undefined is left out of the text
\* (the model puts undefined only in properties that otherwise hold text)
TextProps == {"lastExport", "name", "title"}
JsonObj(obj) ==
    [k \in {j \in DOMAIN obj : ~(j \in TextProps /\ obj[j] = Undefined)} |-> obj[k]]

\* JSON.parse(JSON.stringify(data)) of a document
Json(data) ==
    [s \in DOMAIN data |-> IF s = "settings" THEN JsonObj(data[s]) ELSE data[s]]

\* data.weeklyPlan / data.settings of a parsed document, {} when missing
Sub(data, s) == IF s \in DOMAIN data THEN data[s] ELSE EmptyObj

\* mutant: the spreads in the wrong order, the defaults win over what is stored
LoadDataDefaultsWin(st, dd) ==
    IF st # <<>> THEN Spread(st[1], dd) ELSE dd

\* mutant: a shallow merge, the stored weeklyPlan and settings taken as they are
LoadDataShallow(st, dd) ==
    IF st # <<>> THEN Spread(dd, st[1]) ELSE dd

LoadData(st, dd) ==
    IF st # <<>>
    THEN Spread(Spread(dd, st[1]),
                [weeklyPlan |-> Spread(dd.weeklyPlan, Sub(st[1], "weeklyPlan")),
                 settings |-> Spread(dd.settings, Sub(st[1], "settings"))])
    ELSE dd

\* localStorage after saveData(data); ok = setItem did not throw
SaveData(st, data, ok) == IF ok THEN <<Json(data)>> ELSE st

GetDataOf(st, dd, section) == LoadData(st, dd)[section]

\* getData(section) in the current state
GetData(section) == GetDataOf(store, defaultData, section)

\* localStorage after updateData(section, value)
UpdateDataOf(st, dd, section, value, ok) ==
    SaveData(st, SetProp(LoadData(st, dd), section, value), ok)

\* loadData() returns { ...defaultData } when nothing is stored, and copies a
\* section from defaultData when the stored document lacks it: the array or
\* object the caller gets is then defaultData's own
SectionIsDefault(st, section) == st = <<>> \/ section \notin DOMAIN st[1]

\* the array loadData().weeklyPlan[day] is defaultData.weeklyPlan[day]
DayIsDefault(st, dd, day) ==
    /\ day \in DOMAIN dd.weeklyPlan
    /\ \/ SectionIsDefault(st, "weeklyPlan")
       \/ day \notin DOMAIN st[1].weeklyPlan

\* defaultData after its array `section` was changed in place to `value`
MutateDefault(st, dd, section, value) ==
    IF SectionIsDefault(st, section) THEN SetProp(dd, section, value) ELSE dd

\* what a call returned
RetUndefined == [kind |-> "undefined"]
RetNull == [kind |-> "null"]
RetThrow == [kind |-> "throw"]
RetBool(b) == [kind |-> "boolean", value |-> b]
RetObj(o) == [kind |-> "object", value |-> o]
RetNum(n) == [kind |-> "number", value |-> n]

Called(name, a, r, ok) ==
    /\ op' = name
    /\ args' = a
    /\ ret' = r
    /\ saved' = ok

\* sample values for updateData(section, value)
SampleItem == [id |-> 1, name |-> "a"]
SamplePlans ==
    {[d \in Range(DAYS) |-> IF d = "Monday" THEN <<1>> ELSE <<>>],
     [d \in {"Monday", "Funday"} |-> <<1>>],
     EmptyObj}
SampleSettings ==
    {[notificationsEnabled |-> TRUE, notifyMeals |-> FALSE, notifyCleaning |-> TRUE,
      notifyShopping |-> TRUE, lastExport |-> ISO(0)],
     [notificationsEnabled |-> TRUE],
     [notifyMeals |-> FALSE, lastExport |-> Undefined]}
SampleValues(section) ==
    IF section = "weeklyPlan" THEN SamplePlans
    ELSE IF section = "settings" THEN SampleSettings
    ELSE {<<>>, <<SampleItem>>}

UpdateData(section, value, ok) ==
    /\ store' = UpdateDataOf(store, defaultData, section, value, ok)
    /\ Called("updateData", [section |-> section, value |-> value], RetBool(ok), ok)
    /\ UNCHANGED <<defaultData, tz, now, nextId, notif, fetched, tabs>>

\* the files importData is given: text that is not JSON, JSON that is not an
\* object, and backups (one whole, one with a hand-edited plan)
ImportFiles ==
    {[kind |-> "malformed"],
     [kind |-> "number"],
     [kind |-> "object", data |-> InitialDefaultData],
     [kind |-> "object",
      data |-> [weeklyPlan |-> [d \in {"Sunday", "Funday"} |-> <<2>>]]]}

\* what typeof gives "object" for, null aside: importData lets only these by
ObjectKinds == {"object", "array"}

\* importData(file): the promise resolves with true (returned) or rejects
\* (thrown); the merge is the one loadData() does.  file.data holds the own
\* properties of the parsed value (of an array, its indices)
ImportData(file, ok) ==
    IF file.kind \notin ObjectKinds
    THEN /\ Called("importData", [file |-> file], RetThrow, TRUE)
         /\ UNCHANGED <<store, defaultData, tz, now, nextId, notif, fetched, tabs>>
    ELSE /\ store' = SaveData(store, LoadData(<<file.data>>, defaultData), ok)
         /\ Called("importData", [file |-> file],
                   IF ok THEN RetBool(TRUE) ELSE RetThrow, ok)
         /\ UNCHANGED <<defaultData, tz, now, nextId, notif, fetched, tabs>>

\* exportData(): thrown = making or clicking the download link threw, ok =
\* setItem did not throw.  The file downloaded is the text of data as it is at
\* line 108; data.settings is defaultData's own object when nothing is stored
ExportData(thrown, ok) ==
    LET data == Spread(LoadData(store, defaultData), [exportDate |-> ISO(now)])
        settings == SetProp(data.settings, "lastExport", ISO(now))
        data2 == SetProp(data, "settings", settings)
    IN  IF thrown
        THEN /\ Called("exportData", EmptyObj, RetBool(FALSE), TRUE)
             /\ UNCHANGED <<store, defaultData, tz, now, nextId, notif, fetched, tabs>>
        ELSE /\ defaultData' = IF store = <<>>
                               THEN SetProp(defaultData, "settings", settings)
                               ELSE defaultData
             /\ store' = SaveData(store, data2, ok)
             /\ Called("exportData", [file |-> Json(data)], RetBool(TRUE), ok)
             /\ UNCHANGED <<tz, now, nextId, notif, fetched, tabs>>

\* mutant: the second dialog's answer is not required
ClearAllDataOneConfirm(confirmed, c1, c2, ok) ==
    LET go == confirmed \/ c1
    IN  /\ store' = IF go /\ ok THEN <<>> ELSE store
        /\ Called("clearAllData", [confirmed |-> confirmed, c1 |-> c1, c2 |-> c2],
                  RetBool(go /\ ok), TRUE)
        /\ UNCHANGED <<defaultData, tz, now, nextId, notif, fetched, tabs>>

\* clearAllData(confirmed): c1, c2 are the answers to the two confirm()
\* dialogs, ok = removeItem did not throw
ClearAllData(confirmed, c1, c2, ok) ==
    LET go == confirmed \/ (c1 /\ c2)
    IN  /\ store' = IF go /\ ok THEN <<>> ELSE store
        /\ Called("clearAllData", [confirmed |-> confirmed, c1 |-> c1, c2 |-> c2],
                  RetBool(go /\ ok), TRUE)
        /\ UNCHANGED <<defaultData, tz, now, nextId, notif, fetched, tabs>>

\* initStorage(): available = isStorageAvailable()
InitStorage(available) ==
    /\ store' = IF available /\ store = <<>>
                THEN SaveData(store, defaultData, TRUE) ELSE store
    /\ Called("initStorage", [available |-> available], RetObj(defaultData), TRUE)
    /\ UNCHANGED <<defaultData, tz, now, nextId, notif, fetched, tabs>>

\* navigating to another page of the app loads the modules afresh:
\* localStorage stays, the module-level objects are new, the timers of the
\* page left are gone
PageLoad ==
    /\ defaultData' = InitialDefaultData
    /\ interval' = FALSE
    /\ created' = <<>>
    /\ Called("pageLoad", EmptyObj, RetUndefined, TRUE)
    /\ UNCHANGED <<store, tz, now, nextId, supported, permission, fetched, tabs>>

----------------------------------------------------------------------------
\* meals.js

\* generateId(): Date.now() followed by a random suffix, a value not handed
\* out before
GenerateId == nextId

\* array with array[i] = value
SetAt(list, i, value) == [list EXCEPT ![i] = value]

\* array.filter(x => x.id !== id)
WithoutId(list, id) == SelectSeq(list, LAMBDA x : x.id # id)

AddMeal(mealData, ok) ==
    LET meals == GetData("meals")
        newMeal == Spread([id |-> GenerateId],
                          Spread(mealData, [dateAdded |-> ISO(now), lastMade |-> Null]))
        meals2 == Append(meals, newMeal)
        dd2 == MutateDefault(store, defaultData, "meals", meals2)
    IN  /\ nextId <= MaxId
        /\ nextId' = nextId + 1
        /\ defaultData' = dd2
        /\ store' = UpdateDataOf(store, dd2, "meals", meals2, ok)
        /\ Called("addMeal", [mealData |-> mealData], RetObj(newMeal), ok)
        /\ UNCHANGED <<tz, now, notif, fetched, tabs>>

\* mutant: an id that is not found is added as a new meal
UpdateMealUpsert(mealId, mealData, ok) ==
    LET meals == GetData("meals")
        index == FindIndex(meals, mealId)
        meals2 == IF index # 0 THEN SetAt(meals, index, Spread(meals[index], mealData))
                  ELSE Append(meals, Spread([id |-> mealId], mealData))
        dd2 == MutateDefault(store, defaultData, "meals", meals2)
    IN  /\ defaultData' = dd2
        /\ store' = UpdateDataOf(store, dd2, "meals", meals2, ok)
        /\ Called("updateMeal", [mealId |-> mealId, mealData |-> mealData],
                  IF index # 0 THEN RetObj(meals2[index]) ELSE RetNull, ok)
        /\ UNCHANGED <<tz, now, nextId, notif, fetched, tabs>>

UpdateMeal(mealId, mealData, ok) ==
    LET meals == GetData("meals")
        index == FindIndex(meals, mealId)
        meals2 == SetAt(meals, index, Spread(meals[index], mealData))
        dd2 == MutateDefault(store, defaultData, "meals", meals2)
    IN  IF index # 0
        THEN /\ defaultData' = dd2
             /\ store' = UpdateDataOf(store, dd2, "meals", meals2, ok)
             /\ Called("updateMeal", [mealId |-> mealId, mealData |-> mealData],
                       RetObj(meals2[index]), ok)
             /\ UNCHANGED <<tz, now, nextId, notif, fetched, tabs>>
        ELSE /\ Called("updateMeal", [mealId |-> mealId, mealData |-> mealData],
                       RetNull, TRUE)
             /\ UNCHANGED <<store, defaultData, tz, now, nextId, notif, fetched, tabs>>

DeleteMeal(mealId, ok) ==
    LET filtered == WithoutId(GetData("meals"), mealId)
    IN  /\ store' = UpdateDataOf(store, defaultData, "meals", filtered, ok)
        /\ Called("deleteMeal", [mealId |-> mealId], RetUndefined, ok)
        /\ UNCHANGED <<defaultData, tz, now, nextId, notif, fetched, tabs>>

\* !meal.favourite (a meal added without the property has it undefined)
NotFavourite(meal) == IF "favourite" \in DOMAIN meal THEN ~meal.favourite ELSE TRUE

ToggleFavourite(mealId, ok) ==
    LET meals == GetData("meals")
        index == FindIndex(meals, mealId)
        meals2 == SetAt(meals, index,
                        SetProp(meals[index], "favourite", NotFavourite(meals[index])))
        dd2 == MutateDefault(store, defaultData, "meals", meals2)
    IN  IF index # 0
        THEN /\ defaultData' = dd2
             /\ store' = UpdateDataOf(store, dd2, "meals", meals2, ok)
             /\ Called("toggleFavourite", [mealId |-> mealId],
                       RetBool(meals2[index].favourite), ok)
             /\ UNCHANGED <<tz, now, nextId, notif, fetched, tabs>>
        ELSE /\ Called("toggleFavourite", [mealId |-> mealId], RetBool(FALSE), TRUE)
             /\ UNCHANGED <<store, defaultData, tz, now, nextId, notif, fetched, tabs>>

\* The text operations of filterMeals work on characters: Chars gives the
\* characters of each string the model uses.
Chars(str) ==
    CASE str = "Soup" -> <<"S", "o", "u", "p">>
      [] str = "Toast" -> <<"T", "o", "a", "s", "t">>
      [] str = "Tofu" -> <<"T", "o", "f", "u">>
      [] str = "Bread" -> <<"B", "r", "e", "a", "d">>
      [] str = "BREAD" -> <<"B", "R", "E", "A", "D">>
      [] str = "Milk" -> <<"M", "i", "l", "k">>
      [] str = "MILK" -> <<"M", "I", "L", "K">>
      [] str = "milk" -> <<"m", "i", "l", "k">>
      [] str = "rice" -> <<"r", "i", "c", "e">>
      [] str = "to" -> <<"t", "o">>
      [] str = "oa" -> <<"o", "a">>
      [] str = "p m" -> <<"p", " ", "m">>
      [] str = "Dinner" -> <<"D", "i", "n", "n", "e", "r">>
      [] str = "dinner" -> <<"d", "i", "n", "n", "e", "r">>
      [] str = "Spicy Tofu!" -> <<"S", "p", "i", "c", "y", " ", "T", "o", "f", "u", "!">>
      [] str = "- Milk & rice -" -> <<"-", " ", "M", "i", "l", "k", " ", "&", " ",
                                      "r", "i", "c", "e", " ", "-">>
      [] str = "!!" -> <<"!", "!">>

\* toLowerCase() of one character
LowerChar(c) ==
    CASE c = "A" -> "a" [] c = "B" -> "b" [] c = "D" -> "d" [] c = "E" -> "e"
      [] c = "I" -> "i" [] c = "K" -> "k" [] c = "L" -> "l" [] c = "M" -> "m"
      [] c = "R" -> "r" [] c = "S" -> "s" [] c = "T" -> "t"
      [] OTHER -> c

\* text.toLowerCase()
Lower(text) == [i \in DOMAIN text |-> LowerChar(text[i])]

\* text.includes(part)
StrIncludes(text, part) ==
    \E k \in 0..(Len(text) - Len(part)) : SubSeq(text, k + 1, k + Len(part)) = part

\* strings.join(' ')
RECURSIVE JoinChars(_)
JoinChars(strings) ==
    IF strings = <<>> THEN <<>>
    ELSE IF Len(strings) = 1 THEN Chars(strings[1])
    ELSE Chars(Head(strings)) \o <<" ">> \o JoinChars(Tail(strings))

\* filters.type, filters.ingredient, filters.search are applied when truthy
Truthy(filters, key) == key \in DOMAIN filters /\ filters[key] # ""

\* mutant: the ingredient filter is compared as typed, not lower-cased
KeepsAsTyped(meal, filters) ==
    IF Truthy(filters, "type") /\ filters.type # "all" /\ meal.type # filters.type
    THEN FALSE
    ELSE IF /\ "dietary" \in DOMAIN filters
            /\ ~(\A i \in DOMAIN filters.dietary : filters.dietary[i] \in Range(meal.dietary))
    THEN FALSE
    ELSE IF /\ Truthy(filters, "ingredient")
            /\ ~(\E i \in DOMAIN meal.mainIngredients :
                    StrIncludes(Lower(Chars(meal.mainIngredients[i])),
                                Chars(filters.ingredient)))
    THEN FALSE
    ELSE IF /\ Truthy(filters, "search")
            /\ ~StrIncludes(Lower(Chars(meal.title) \o <<" ">> \o JoinChars(meal.ingredients)),
                            Lower(Chars(filters.search)))
    THEN FALSE
    ELSE TRUE

\* the callback of meals.filter in filterMeals
Keeps(meal, filters) ==
    IF Truthy(filters, "type") /\ filters.type # "all" /\ meal.type # filters.type
    THEN FALSE
    ELSE IF /\ "dietary" \in DOMAIN filters
            /\ ~(\A i \in DOMAIN filters.dietary : filters.dietary[i] \in Range(meal.dietary))
    THEN FALSE
    ELSE IF /\ Truthy(filters, "ingredient")
            /\ ~(\E i \in DOMAIN meal.mainIngredients :
                    StrIncludes(Lower(Chars(meal.mainIngredients[i])),
                                Lower(Chars(filters.ingredient))))
    THEN FALSE
    ELSE IF /\ Truthy(filters, "search")
            /\ ~StrIncludes(Lower(Chars(meal.title) \o <<" ">> \o JoinChars(meal.ingredients)),
                            Lower(Chars(filters.search)))
    THEN FALSE
    ELSE TRUE

FilterMeals(filters) ==
    /\ Called("filterMeals", [filters |-> filters],
              RetObj(SelectSeq(GetData("meals"), LAMBDA meal : Keeps(meal, filters))), TRUE)
    /\ UNCHANGED <<store, defaultData, tz, now, nextId, notif, fetched, tabs>>

----------------------------------------------------------------------------
\* tasks.js

\* Dates are day numbers, day 0 being 2024-01-01, and instants are hours since
\* 2024-01-01T00:00Z.  A time zone is its standard offset from UTC in hours and
\* whether it keeps summer time; summer time runs, as in the European Union,
\* from 01:00 UTC on 31 March to 01:00 UTC on 27 October.
HoursPerYear == 365 * 24
DstStart == 90 * 24 + 1
DstEnd == 300 * 24 + 1

InDst(zone, t) ==
    zone.dst /\ (t % HoursPerYear) >= DstStart /\ (t % HoursPerYear) < DstEnd

\* local time of the instant t
LocalOf(zone, t) == t + zone.std + (IF InDst(zone, t) THEN 1 ELSE 0)

\* the instant of a local time: of two candidates the earlier one, and a local
\* time skipped by the clock change is read with the offset before the change
UtcOf(zone, local) ==
    IF InDst(zone, local - zone.std - 1)
    THEN local - zone.std - 1
    ELSE local - zone.std

\* the table freq of calculateNextDueDate, freq[frequency] || 7
FreqDays(frequency) ==
    CASE frequency = "daily" -> 1
      [] frequency = "weekly" -> 7
      [] frequency = "fortnightly" -> 14
      [] frequency = "monthly" -> 30
      [] frequency = "quarterly" -> 90
      [] frequency = "yearly" -> 365
      [] OTHER -> 7

\* new Date(currentDate) is UTC midnight of the date; getDate() and setDate()
\* read and write the day of the month in local time; toISOString() is UTC
CalculateNextDueDate(zone, currentDate, frequency) ==
    LET date == currentDate * 24
        moved == LocalOf(zone, date) + FreqDays(frequency) * 24
    IN  UtcOf(zone, moved) \div 24

\* mutant: completed is set, not flipped
ToggledTaskSetsCompleted(zone, today, task) ==
    LET t2 == Spread(task, [completed |-> TRUE, lastCompleted |-> ISO(today)])
        recurring == ~("frequency" \in DOMAIN task /\ task.frequency = "once")
    IN  IF ~recurring THEN [task |-> t2, threw |-> FALSE]
        ELSE IF "dueDate" \notin DOMAIN task THEN [task |-> t2, threw |-> TRUE]
        ELSE [task |-> Spread(t2,
                  [dueDate |-> CalculateNextDueDate(zone, task.dueDate, task.frequency),
                   completed |-> FALSE]),
              threw |-> FALSE]

\* the task after lines 32-39 of toggleTaskComplete ran on it, and whether
\* calculateNextDueDate threw (new Date(undefined).toISOString() does)
ToggledTask(zone, today, task) ==
    LET t1 == SetProp(task, "completed", ~task.completed)
        t2 == SetProp(t1, "lastCompleted", ISO(today))
        recurring == ~("frequency" \in DOMAIN task /\ task.frequency = "once")
    IN  IF ~t1.completed THEN [task |-> t1, threw |-> FALSE]
        ELSE IF ~recurring THEN [task |-> t2, threw |-> FALSE]
        ELSE IF "dueDate" \notin DOMAIN task THEN [task |-> t2, threw |-> TRUE]
        ELSE [task |-> Spread(t2,
                  [dueDate |-> CalculateNextDueDate(zone, task.dueDate, task.frequency),
                   completed |-> FALSE]),
              threw |-> FALSE]

TaskSection(type) == IF type = "cleaning" THEN "cleaningTasks" ELSE "maintenanceTasks"

AddTask(taskData, type, ok) ==
    LET section == TaskSection(type)
        tasks == GetData(section)
        newTask == Spread([id |-> GenerateId],
                          Spread(taskData, [completed |-> FALSE, lastCompleted |-> Null,
                                            createdDate |-> ISO(now)]))
        tasks2 == Append(tasks, newTask)
        dd2 == MutateDefault(store, defaultData, section, tasks2)
    IN  /\ nextId <= MaxId
        /\ nextId' = nextId + 1
        /\ defaultData' = dd2
        /\ store' = UpdateDataOf(store, dd2, section, tasks2, ok)
        /\ Called("addTask", [taskData |-> taskData, type |-> type], RetObj(newTask), ok)
        /\ UNCHANGED <<tz, now, notif, fetched, tabs>>

ToggleTaskComplete(taskId, type, ok) ==
    LET section == TaskSection(type)
        tasks == GetData(section)
        index == FindIndex(tasks, taskId)
        toggled == ToggledTask(tz, now, tasks[index])
        tasks2 == SetAt(tasks, index, toggled.task)
        dd2 == MutateDefault(store, defaultData, section, tasks2)
        a == [taskId |-> taskId, type |-> type]
    IN  IF index = 0
        THEN /\ Called("toggleTaskComplete", a, RetNull, TRUE)
             /\ UNCHANGED <<store, defaultData, tz, now, nextId, notif, fetched, tabs>>
        ELSE IF toggled.threw
        THEN /\ defaultData' = dd2
             /\ Called("toggleTaskComplete", a, RetThrow, TRUE)
             /\ UNCHANGED <<store, tz, now, nextId, notif, fetched, tabs>>
        ELSE /\ ("dueDate" \in DOMAIN tasks[index]) => tasks[index].dueDate <= MaxDue
             /\ defaultData' = dd2
             /\ store' = UpdateDataOf(store, dd2, section, tasks2, ok)
             /\ Called("toggleTaskComplete", a, RetObj(toggled.task), ok)
             /\ UNCHANGED <<tz, now, nextId, notif, fetched, tabs>>

DeleteTask(taskId, type, ok) ==
    LET section == TaskSection(type)
        filtered == WithoutId(GetData(section), taskId)
    IN  /\ store' = UpdateDataOf(store, defaultData, section, filtered, ok)
        /\ Called("deleteTask", [taskId |-> taskId, type |-> type], RetUndefined, ok)
        /\ UNCHANGED <<defaultData, tz, now, nextId, notif, fetched, tabs>>

----------------------------------------------------------------------------
\* shopping.js

\* String.prototype.toLowerCase() on the names the model uses
ToLowerCase(str) ==
    CASE str = "Milk" -> "milk"
      [] str = "MILK" -> "milk"
      [] OTHER -> str

\* addShoppingItem(itemData) run on the store st and the defaults dd, id being
\* what generateId() returns: the store and the defaults after it, and the
\* item it returns
AddedItem(st, dd, id, today, itemData, ok) ==
    LET list == GetDataOf(st, dd, "shoppingList")
        newItem == Spread([id |-> id],
                          Spread(itemData, [checked |-> FALSE, addedDate |-> ISO(today)]))
        list2 == Append(list, newItem)
        dd2 == MutateDefault(st, dd, "shoppingList", list2)
    IN  [store |-> UpdateDataOf(st, dd2, "shoppingList", list2, ok),
         defaultData |-> dd2,
         item |-> newItem]

AddShoppingItem(itemData, ok) ==
    LET r == AddedItem(store, defaultData, GenerateId, now, itemData, ok)
    IN  /\ nextId <= MaxItemId
        /\ nextId' = nextId + 1
        /\ defaultData' = r.defaultData
        /\ store' = r.store
        /\ Called("addShoppingItem", [itemData |-> itemData], RetObj(r.item), ok)
        /\ UNCHANGED <<tz, now, notif, fetched, tabs>>

ToggleItemChecked(itemId, ok) ==
    LET list == GetData("shoppingList")
        index == FindIndex(list, itemId)
        list2 == SetAt(list, index, SetProp(list[index], "checked", ~list[index].checked))
        dd2 == MutateDefault(store, defaultData, "shoppingList", list2)
    IN  IF index # 0
        THEN /\ defaultData' = dd2
             /\ store' = UpdateDataOf(store, dd2, "shoppingList", list2, ok)
             /\ Called("toggleItemChecked", [itemId |-> itemId],
                       RetBool(list2[index].checked), ok)
             /\ UNCHANGED <<tz, now, nextId, notif, fetched, tabs>>
        ELSE /\ Called("toggleItemChecked", [itemId |-> itemId], RetBool(FALSE), TRUE)
             /\ UNCHANGED <<store, defaultData, tz, now, nextId, notif, fetched, tabs>>

RemoveItem(itemId, ok) ==
    LET filtered == WithoutId(GetData("shoppingList"), itemId)
    IN  /\ store' = UpdateDataOf(store, defaultData, "shoppingList", filtered, ok)
        /\ Called("removeItem", [itemId |-> itemId], RetUndefined, ok)
        /\ UNCHANGED <<defaultData, tz, now, nextId, notif, fetched, tabs>>

ClearCheckedItems(ok) ==
    LET filtered == SelectSeq(GetData("shoppingList"), LAMBDA i : ~i.checked)
    IN  /\ store' = UpdateDataOf(store, defaultData, "shoppingList", filtered, ok)
        /\ Called("clearCheckedItems", EmptyObj, RetObj(filtered), ok)
        /\ UNCHANGED <<defaultData, tz, now, nextId, notif, fetched, tabs>>

\* item.price || 0 (prices are whole pence)
PriceOrZero(item) == IF "price" \in DOMAIN item THEN item.price ELSE 0

\* items.reduce((sum, item) => sum + (item.price || 0), 0)
RECURSIVE ReducePrices(_)
ReducePrices(items) ==
    IF items = <<>> THEN 0
    ELSE ReducePrices(SubSeq(items, 1, Len(items) - 1)) + PriceOrZero(items[Len(items)])

\* mutant: the checked items are not filtered out
TotalCostOfAll(list) == ReducePrices(list)

\* what getTotalCost() computes from the list it loads
TotalCostOf(list) == ReducePrices(SelectSeq(list, LAMBDA i : ~i.checked))

GetTotalCost ==
    /\ Called("getTotalCost", EmptyObj, RetNum(TotalCostOf(GetData("shoppingList"))), TRUE)
    /\ UNCHANGED <<store, defaultData, tz, now, nextId, notif, fetched, tabs>>

\* the keys of a weekly plan in the order Object.values() visits them: the
\* weekdays, which defaultData has from the start, before any other key
KeyOrder == DAYS \o <<"Funday">>

RECURSIVE Concat(_)
Concat(lists) == IF lists = <<>> THEN <<>> ELSE Head(lists) \o Concat(Tail(lists))

\* the meal ids of Object.values(weeklyPlan), day after day
PlannedIds(weeklyPlan) ==
    Concat([i \in 1..Len(KeyOrder) |->
               IF KeyOrder[i] \in DOMAIN weeklyPlan THEN weeklyPlan[KeyOrder[i]] ELSE <<>>])

\* the elements of a Set filled from the list s, in insertion order
RECURSIVE SetOf(_)
SetOf(s) ==
    IF s = <<>> THEN <<>>
    ELSE LET front == SetOf(SubSeq(s, 1, Len(s) - 1))
             last == s[Len(s)]
         IN  IF last \in Range(front) THEN front ELSE Append(front, last)

\* the Set ingredients of generateFromMealPlan; an id that names no meal
\* contributes nothing
Ingredients(weeklyPlan, meals) ==
    LET ids == PlannedIds(weeklyPlan)
    IN  SetOf(Concat([i \in 1..Len(ids) |->
                         IF FindIndex(meals, ids[i]) # 0
                         THEN meals[FindIndex(meals, ids[i])].ingredients
                         ELSE <<>>]))

\* mutant: only the item's name is lower-cased before the comparison
InListOneSided(currentList, ing) ==
    \E i \in DOMAIN currentList : ToLowerCase(currentList[i].name) = ing

\* currentList.find(item => item.name.toLowerCase() === ing.toLowerCase())
InList(currentList, ing) ==
    \E i \in DOMAIN currentList : ToLowerCase(currentList[i].name) = ToLowerCase(ing)

\* currentList is read once, before the loop: it is defaultData.shoppingList
\* itself when the store had no list then (aliased), a parsed copy otherwise
CurrentList(aliased, snapshot, dd) == IF aliased THEN dd.shoppingList ELSE snapshot

\* the loop over the Set: acc is the store, the defaults, the next id, the
\* count and whether every write so far succeeded; oks[i] tells whether the
\* write for the i-th ingredient succeeds
RECURSIVE AddMissing(_, _, _, _, _, _)
AddMissing(ings, oks, aliased, snapshot, today, acc) ==
    IF ings = <<>> THEN acc
    ELSE LET ing == Head(ings)
             r == AddedItem(acc.store, acc.defaultData, acc.nextId, today,
                            [name |-> ing, quantity |-> "1", category |-> "food",
                             price |-> 0, aisle |-> ""],
                            Head(oks))
             acc2 == IF InList(CurrentList(aliased, snapshot, acc.defaultData), ing)
                     THEN acc
                     ELSE [store |-> r.store, defaultData |-> r.defaultData,
                           nextId |-> acc.nextId + 1, added |-> acc.added + 1,
                           saved |-> acc.saved /\ Head(oks)]
         IN  AddMissing(Tail(ings), Tail(oks), aliased, snapshot, today, acc2)

GenerateFromMealPlan(oks) ==
    LET ings == Ingredients(GetData("weeklyPlan"), GetData("meals"))
        end == AddMissing(ings, oks,
                          SectionIsDefault(store, "shoppingList"),
                          GetData("shoppingList"), now,
                          [store |-> store, defaultData |-> defaultData,
                           nextId |-> nextId, added |-> 0, saved |-> TRUE])
    IN  /\ end.nextId <= MaxItemId + 1
        /\ store' = end.store
        /\ defaultData' = end.defaultData
        /\ nextId' = end.nextId
        /\ Called("generateFromMealPlan", EmptyObj, RetNum(end.added), end.saved)
        /\ UNCHANGED <<tz, now, notif, fetched, tabs>>

----------------------------------------------------------------------------
\* planner.js

\* array.includes(x)
Includes(list, x) == x \in Range(list)

\* the weeklyPlan object loadData() returns is defaultData.weeklyPlan itself
\* only when nothing is stored; with a stored document it is a new object
\* whose arrays for the days the stored plan lacks are defaultData's
PlanIsDefault(st) == st = <<>>

\* defaultData after plan[day] was assigned to (plan -> plan2)
AssignDay(st, dd, plan2) ==
    IF PlanIsDefault(st) THEN SetProp(dd, "weeklyPlan", plan2) ELSE dd

\* defaultData after plan[day].push(...) (plan -> plan2)
PushDay(st, dd, day, plan2) ==
    IF PlanIsDefault(st) THEN SetProp(dd, "weeklyPlan", plan2)
    ELSE IF DayIsDefault(st, dd, day)
    THEN SetProp(dd, "weeklyPlan", SetProp(dd.weeklyPlan, day, plan2[day]))
    ELSE dd

\* mutant: the meal is pushed without the includes() test
AddMealToDayUnchecked(day, mealId, ok) ==
    LET plan == GetData("weeklyPlan")
        plan1 == IF day \in DOMAIN plan THEN plan ELSE SetProp(plan, day, <<>>)
        plan2 == SetProp(plan1, day, Append(plan1[day], mealId))
        dd2 == PushDay(store, AssignDay(store, defaultData, plan1), day, plan2)
    IN  /\ defaultData' = dd2
        /\ store' = UpdateDataOf(store, dd2, "weeklyPlan", plan2, ok)
        /\ Called("addMealToDay", [day |-> day, mealId |-> mealId], RetBool(TRUE), ok)
        /\ UNCHANGED <<tz, now, nextId, notif, fetched, tabs>>

AddMealToDay(day, mealId, ok) ==
    LET plan == GetData("weeklyPlan")
        plan1 == IF day \in DOMAIN plan THEN plan ELSE SetProp(plan, day, <<>>)
        plan2 == SetProp(plan1, day, Append(plan1[day], mealId))
        dd2 == PushDay(store, AssignDay(store, defaultData, plan1), day, plan2)
    IN  IF ~Includes(plan1[day], mealId)
        THEN /\ defaultData' = dd2
             /\ store' = UpdateDataOf(store, dd2, "weeklyPlan", plan2, ok)
             /\ Called("addMealToDay", [day |-> day, mealId |-> mealId], RetBool(TRUE), ok)
             /\ UNCHANGED <<tz, now, nextId, notif, fetched, tabs>>
        ELSE /\ Called("addMealToDay", [day |-> day, mealId |-> mealId], RetBool(FALSE), TRUE)
             /\ UNCHANGED <<store, defaultData, tz, now, nextId, notif, fetched, tabs>>

RemoveMealFromDay(day, mealId, ok) ==
    LET plan == GetData("weeklyPlan")
        plan2 == SetProp(plan, day, SelectSeq(plan[day], LAMBDA id : id # mealId))
        dd2 == AssignDay(store, defaultData, plan2)
    IN  IF day \in DOMAIN plan
        THEN /\ defaultData' = dd2
             /\ store' = UpdateDataOf(store, dd2, "weeklyPlan", plan2, ok)
             /\ Called("removeMealFromDay", [day |-> day, mealId |-> mealId], RetBool(TRUE), ok)
             /\ UNCHANGED <<tz, now, nextId, notif, fetched, tabs>>
        ELSE /\ Called("removeMealFromDay", [day |-> day, mealId |-> mealId], RetBool(FALSE), TRUE)
             /\ UNCHANGED <<store, defaultData, tz, now, nextId, notif, fetched, tabs>>

ClearDay(day, ok) ==
    LET plan2 == SetProp(GetData("weeklyPlan"), day, <<>>)
        dd2 == AssignDay(store, defaultData, plan2)
    IN  /\ defaultData' = dd2
        /\ store' = UpdateDataOf(store, dd2, "weeklyPlan", plan2, ok)
        /\ Called("clearDay", [day |-> day], RetUndefined, ok)
        /\ UNCHANGED <<tz, now, nextId, notif, fetched, tabs>>

ClearWeek(ok) ==
    LET plan == [d \in Range(DAYS) |-> <<>>]
    IN  /\ store' = UpdateDataOf(store, defaultData, "weeklyPlan", plan, ok)
        /\ Called("clearWeek", EmptyObj, RetUndefined, ok)
        /\ UNCHANGED <<defaultData, tz, now, nextId, notif, fetched, tabs>>

----------------------------------------------------------------------------
\* notifications.js

Permissions == {"default", "granted", "denied"}

\* obj[key] read as a condition: a missing property is falsy
IsSet(obj, key) == key \in DOMAIN obj /\ obj[key]

\* the options showNotification gives every notification; a notification is
\* kept as its title and options (icon, badge, vibrate and body, which no
\* handler reads back, are left out)
DefaultOptions == [tag |-> "home-management", renotify |-> FALSE]

\* mutant: the notification is created whatever the platform and permission
ShownUnguarded(sup, perm, title, options) ==
    <<Spread(Spread(DefaultOptions, options), [title |-> title])>>

\* showNotification(title, options) as the list of the notifications it
\* creates, sup = isNotificationSupported(), perm = Notification.permission.
\* (The timer that closes the notification after 5 seconds does not undo its
\* creation.)
Shown(sup, perm, title, options) ==
    IF ~sup \/ perm # "granted"
    THEN <<>>
    ELSE <<Spread(Spread(DefaultOptions, options), [title |-> title])>>

ShowNotification(title, options) ==
    LET made == Shown(supported, permission, title, options)
    IN  /\ created' = made
        /\ Called("showNotification", [title |-> title, options |-> options],
                  IF made = <<>> THEN RetNull ELSE RetObj(made[1]), TRUE)
        /\ UNCHANGED <<store, defaultData, tz, now, nextId,
                       supported, permission, interval, fetched, tabs>>

\* the instant of a call made at `hour` (UTC) of the day `now`
Instant(hour) == now * 24 + hour

\* scheduleTaskReminder(task) called at the instant t: new Date(task.dueDate)
\* is UTC midnight of the due date, toDateString() the local date
ScheduleTaskReminder(task, hour) ==
    LET settings == GetData("settings")
        t == Instant(hour)
        dueDate == task.dueDate * 24
        tag == "task-" \o ToString(task.id)
        today == IF LocalOf(tz, dueDate) \div 24 = LocalOf(tz, t) \div 24
                 THEN Shown(supported, permission, "Task Due Today", [tag |-> tag])
                 ELSE <<>>
        overdue == IF dueDate < t
                   THEN Shown(supported, permission, "Overdue Task",
                              [tag |-> tag, requireInteraction |-> TRUE])
                   ELSE <<>>
    IN  /\ created' = IF "dueDate" \notin DOMAIN task \/ ~IsSet(task, "reminder")
                      THEN <<>>
                      ELSE IF ~settings.notificationsEnabled THEN <<>>
                      ELSE today \o overdue
        /\ Called("scheduleTaskReminder", [task |-> task, hour |-> hour],
                  RetUndefined, TRUE)
        /\ UNCHANGED <<store, defaultData, tz, now, nextId,
                       supported, permission, interval, fetched, tabs>>

\* dueTasks of checkDueTasks: the tasks of both lists that are not completed
\* and due on the (UTC) day `today`
DueTasks(dd, today) ==
    SelectSeq(GetDataOf(store, dd, "cleaningTasks")
                  \o GetDataOf(store, dd, "maintenanceTasks"),
              LAMBDA task : /\ ~task.completed
                            /\ "dueDate" \in DOMAIN task
                            /\ task.dueDate = today)

\* the notifications one run of checkDueTasks() creates, dd = defaultData
DueSummary(dd) ==
    LET settings == GetDataOf(store, dd, "settings")
        n == Len(DueTasks(dd, now))
    IN  IF ~settings.notificationsEnabled \/ ~settings.notifyCleaning THEN <<>>
        ELSE IF n > 0
        THEN Shown(supported, permission,
                   ToString(n) \o " Task" \o (IF n > 1 THEN "s" ELSE "") \o " Due Today",
                   [tag |-> "daily-tasks"])
        ELSE <<>>

CheckDueTasks ==
    /\ created' = DueSummary(defaultData)
    /\ Called("checkDueTasks", EmptyObj, RetUndefined, TRUE)
    /\ UNCHANGED <<store, defaultData, tz, now, nextId,
                   supported, permission, interval, fetched, tabs>>

\* toLocaleDateString('en-US', { weekday: 'long' }) of a local day; day 0,
\* 2024-01-01, is a Monday
DayName(day) == DAYS[(day % 7) + 1]

\* remindMealPlanning() called at `hour` (UTC) of the day `now`
RemindMealPlanning(hour) ==
    LET settings == GetData("settings")
        weeklyPlan == GetData("weeklyPlan")
        today == LocalOf(tz, Instant(hour))
        dayName == DayName(today \div 24)
        todayMeals == IF dayName \in DOMAIN weeklyPlan THEN weeklyPlan[dayName] ELSE <<>>
    IN  /\ created' = IF ~settings.notificationsEnabled \/ ~settings.notifyMeals
                      THEN <<>>
                      ELSE IF Len(todayMeals) = 0 /\ today % 24 = 9
                      THEN Shown(supported, permission, "Meal Planning Reminder",
                                 [tag |-> "meal-planning"])
                      ELSE <<>>
        /\ Called("remindMealPlanning", [hour |-> hour], RetUndefined, TRUE)
        /\ UNCHANGED <<store, defaultData, tz, now, nextId,
                       supported, permission, interval, fetched, tabs>>

\* uncheckedItems of remindShopping
UncheckedItems == SelectSeq(GetData("shoppingList"), LAMBDA item : ~item.checked)

RemindShopping ==
    LET settings == GetData("settings")
    IN  /\ created' = IF ~settings.notificationsEnabled \/ ~settings.notifyShopping
                      THEN <<>>
                      ELSE IF Len(UncheckedItems) > 5
                      THEN Shown(supported, permission, "Shopping Reminder",
                                 [tag |-> "shopping"])
                      ELSE <<>>
        /\ Called("remindShopping", EmptyObj, RetUndefined, TRUE)
        /\ UNCHANGED <<store, defaultData, tz, now, nextId,
                       supported, permission, interval, fetched, tabs>>

\* what Notification.requestPermission() can resolve with: the user is asked
\* only while the permission is "default"; "error" is a promise that rejects
Answers == IF permission = "default" THEN Permissions \cup {"error"}
           ELSE {permission, "error"}

\* defaultData after getData('settings') was changed in place to `settings`:
\* with nothing stored the object loadData() hands out is defaultData's own,
\* with a stored document it is a fresh merge
SettingsMutated(settings) ==
    IF store = <<>> THEN SetProp(defaultData, "settings", settings) ELSE defaultData

\* requestPermission(): answer is what the platform's prompt resolves with,
\* ok = setItem did not throw
RequestPermission(answer, ok) ==
    IF ~supported
    THEN /\ created' = <<>>
         /\ Called("requestPermission", [answer |-> answer], RetBool(FALSE), TRUE)
         /\ UNCHANGED <<store, defaultData, tz, now, nextId,
                        supported, permission, interval, fetched, tabs>>
    ELSE IF answer = "granted"
    THEN LET data == SetProp(GetData("settings"), "notificationsEnabled", TRUE)
             dd2 == SettingsMutated(data)
         IN  /\ permission' = answer
             /\ defaultData' = dd2
             /\ store' = UpdateDataOf(store, dd2, "settings", data, ok)
             /\ created' = Shown(supported, answer, "Home Management Hub", EmptyObj)
             /\ Called("requestPermission", [answer |-> answer], RetBool(TRUE), ok)
             /\ UNCHANGED <<tz, now, nextId, supported, interval, fetched, tabs>>
    ELSE /\ permission' = IF answer = "error" THEN permission ELSE answer
         /\ created' = <<>>
         /\ Called("requestPermission", [answer |-> answer], RetBool(FALSE), TRUE)
         /\ UNCHANGED <<store, defaultData, tz, now, nextId,
                        supported, interval, fetched, tabs>>

\* the page is loaded and the module runs initNotifications() (lines 273-278):
\* the module-level objects are new, the timers of the page left are gone
StartsPolling ==
    /\ supported
    /\ GetDataOf(store, InitialDefaultData, "settings").notificationsEnabled
    /\ permission = "granted"

InitNotifications ==
    /\ defaultData' = InitialDefaultData
    /\ interval' = StartsPolling
    /\ created' = IF StartsPolling THEN DueSummary(InitialDefaultData) ELSE <<>>
    /\ Called("initNotifications", EmptyObj, RetUndefined, TRUE)
    /\ UNCHANGED <<store, tz, now, nextId, supported, permission, fetched, tabs>>

\* the timer set by setInterval(checkDueTasks, 60 * 60 * 1000) fires
Poll ==
    /\ interval
    /\ created' = DueSummary(defaultData)
    /\ Called("poll", EmptyObj, RetUndefined, TRUE)
    /\ UNCHANGED <<store, defaultData, tz, now, nextId,
                   supported, permission, interval, fetched, tabs>>

\* disableNotifications(): the timer is left running
DisableNotifications(ok) ==
    LET data == SetProp(GetData("settings"), "notificationsEnabled", FALSE)
        dd2 == SettingsMutated(data)
    IN  /\ defaultData' = dd2
        /\ store' = UpdateDataOf(store, dd2, "settings", data, ok)
        /\ created' = <<>>
        /\ Called("disableNotifications", EmptyObj, RetUndefined, ok)
        /\ UNCHANGED <<tz, now, nextId, supported, permission, interval, fetched, tabs>>

\* the user changes the site's notification permission in the browser
PermissionChange(p) ==
    /\ supported
    /\ p # permission
    /\ permission' = p
    /\ created' = <<>>
    /\ Called("permissionChange", [permission |-> p], RetUndefined, TRUE)
    /\ UNCHANGED <<store, defaultData, tz, now, nextId, supported, interval, fetched, tabs>>

----------------------------------------------------------------------------
\* server.js: POST /api/save-meal

\* the characters \w matches
WordChars ==
    {"a", "b", "c", "d", "e", "f", "g", "h", "i", "j", "k", "l", "m",
     "n", "o", "p", "q", "r", "s", "t", "u", "v", "w", "x", "y", "z",
     "A", "B", "C", "D", "E", "F", "G", "H", "I", "J", "K", "L", "M",
     "N", "O", "P", "Q", "R", "S", "T", "U", "V", "W", "X", "Y", "Z",
     "0", "1", "2", "3", "4", "5", "6", "7", "8", "9", "_"}

\* text without the non-word characters it starts with
RECURSIVE SkipNonWord(_)
SkipNonWord(text) ==
    IF text = <<>> \/ Head(text) \in WordChars THEN text
    ELSE SkipNonWord(Tail(text))

\* mutant: every non-word character becomes a hyphen of its own
RECURSIVE ReplaceEachNonWord(_)
ReplaceEachNonWord(text) ==
    IF text = <<>> THEN <<>>
    ELSE <<IF Head(text) \in WordChars THEN Head(text) ELSE "-">>
             \o ReplaceEachNonWord(Tail(text))

\* text.replace(/[^\w]+/g, '-')
RECURSIVE ReplaceNonWord(_)
ReplaceNonWord(text) ==
    IF text = <<>> THEN <<>>
    ELSE IF Head(text) \in WordChars
    THEN <<Head(text)>> \o ReplaceNonWord(Tail(text))
    ELSE <<"-">> \o ReplaceNonWord(SkipNonWord(text))

\* text.replace(/(^-+|-+$)/g, '')
RECURSIVE TrimHyphens(_)
TrimHyphens(text) ==
    IF text = <<>> THEN <<>>
    ELSE IF Head(text) = "-" THEN TrimHyphens(Tail(text))
    ELSE IF text[Len(text)] = "-" THEN TrimHyphens(SubSeq(text, 1, Len(text) - 1))
    ELSE text

\* slugify(text), on the characters of text
Slugify(text) ==
    TrimHyphens(ReplaceNonWord(Lower(text))) \o <<".", "j", "s", "o", "n">>

\* filePath of a meal, `meals/${mealType}/${fileName}`
FilePath(meal) ==
    <<"m", "e", "a", "l", "s", "/">> \o Lower(Chars(meal.type)) \o <<"/">>
        \o Slugify(Chars(meal.title))

\* resp.ok
IsOk(status) == status >= 200 /\ status <= 299

\* what the handler sends: res.json(body) after res.status(status), 200 when
\* no status was set
Response(status, body) == [kind |-> "response", status |-> status, body |-> body]

\* the handler's answer to an upstream response: resp.json() rejects on a body
\* that is not JSON, result.content.html_url throws when there is no content;
\* an error property that is undefined is left out of the JSON sent
Relayed(answer) ==
    IF ~answer.json THEN Response(500, [error |-> "invalid json response body"])
    ELSE IF IsOk(answer.status)
    THEN IF "content" \in DOMAIN answer.body
         THEN Response(200, [success |-> TRUE, url |-> answer.body.content.html_url])
         ELSE Response(500, [error |-> "Cannot read properties of undefined"])
    ELSE Response(answer.status,
                  IF "message" \in DOMAIN answer.body
                  THEN [error |-> answer.body.message] ELSE EmptyObj)

\* app.post("/api/save-meal"): meal is req.body; answer is what the upstream
\* API does with the one PUT the handler sends (the request is kept as its
\* method and path): fetch() rejects, or resolves with a response
SaveMeal(meal, answer) ==
    /\ IF "type" \notin DOMAIN meal \/ "title" \notin DOMAIN meal
       THEN /\ fetched' = <<>>
            /\ Called("save-meal", [meal |-> meal],
                      Response(500, [error |-> "Cannot read properties of undefined"]),
                      TRUE)
       ELSE /\ fetched' = <<[method |-> "PUT", path |-> FilePath(meal)]>>
            /\ Called("save-meal", [meal |-> meal, answer |-> answer],
                      IF answer.kind = "failed"
                      THEN Response(500, [error |-> "request failed"])
                      ELSE Relayed(answer),
                      TRUE)
    /\ UNCHANGED <<store, defaultData, tz, now, nextId, notif, tabs>>

----------------------------------------------------------------------------
\* two tabs on one localStorage

\* Each tab runs its handlers to completion on its own thread; the tabs share
\* localStorage and nothing else, and no handler takes a lock.  A tab's
\* addMeal is its three accesses to the shared state, in program order: the
\* getItem of getMeals(), the getItem of updateData's loadData(), the setItem
\* of saveData().
Tabs == {1, 2}

\* a tab between two handlers
IdleTab ==
    [pc |-> "idle", defaultData |-> InitialDefaultData, meals |-> <<>>,
     newMeal |-> EmptyObj, data |-> EmptyObj, saved |-> TRUE]

\* mutant: the section is written as what is stored now followed by the
\* elements of value that are new
AssignedMerging(data, section, value) ==
    SetProp(data, section,
            data[section]
                \o SelectSeq(value, LAMBDA x : \A i \in DOMAIN data[section] :
                                                   data[section][i].id # x.id))

\* data[section] = value of updateData
Assigned(data, section, value) == SetProp(data, section, value)

\* addMeal, lines 10-17: getMeals() reads the store, the new meal is pushed
\* on the array read (the tab's own defaultData's when nothing is stored)
TabGetMeals(t, mealData) ==
    LET tab == tabs[t]
        meals == GetDataOf(store, tab.defaultData, "meals")
        newMeal == Spread([id |-> GenerateId],
                          Spread(mealData, [dateAdded |-> ISO(now), lastMade |-> Null]))
        meals2 == Append(meals, newMeal)
    IN  /\ tab.pc \in {"idle", "done"}
        /\ nextId <= MaxId
        /\ nextId' = nextId + 1
        /\ tabs' = [tabs EXCEPT ![t] =
                      [pc |-> "pushed",
                       defaultData |-> MutateDefault(store, tab.defaultData, "meals", meals2),
                       meals |-> meals2, newMeal |-> newMeal, data |-> EmptyObj,
                       saved |-> TRUE]]
        /\ UNCHANGED <<store, defaultData, tz, now, op, args, ret, saved, notif, fetched>>

\* updateData('meals', meals), lines 94-95: loadData() reads the store again
\* and the section is assigned
TabLoadData(t) ==
    LET tab == tabs[t]
    IN  /\ tab.pc = "pushed"
        /\ tabs' = [tabs EXCEPT ![t] =
                      [tab EXCEPT !.pc = "loaded",
                                  !.data = Assigned(LoadData(store, tab.defaultData),
                                                    "meals", tab.meals)]]
        /\ UNCHANGED <<store, defaultData, tz, now, nextId, op, args, ret, saved,
                       notif, fetched>>

\* saveData(data), then addMeal shows its success message and returns the
\* new meal; ok = setItem did not throw
TabSaveData(t, ok) ==
    LET tab == tabs[t]
    IN  /\ tab.pc = "loaded"
        /\ store' = SaveData(store, tab.data, ok)
        /\ tabs' = [tabs EXCEPT ![t] = [tab EXCEPT !.pc = "done", !.saved = ok]]
        /\ UNCHANGED <<defaultData, tz, now, nextId, op, args, ret, saved, notif, fetched>>

----------------------------------------------------------------------------
\* the environment

UTC == [name |-> "UTC", std |-> 0, dst |-> FALSE]
London == [name |-> "Europe/London", std |-> 0, dst |-> TRUE]
Bogota == [name |-> "America/Bogota", std |-> 0 - 5, dst |-> FALSE]
Zones == {UTC, London, Bogota}
Days == {0, 100}

\* a page that has created no notification and set no timer, a server that
\* has served no request, no second tab at work
NoNotifications ==
    /\ supported = TRUE
    /\ permission = "default"
    /\ interval = FALSE
    /\ created = <<>>
    /\ fetched = <<>>
    /\ tabs = [t \in Tabs |-> IdleTab]

Init ==
    /\ store = <<>>
    /\ defaultData = InitialDefaultData
    /\ tz = London
    /\ now = 0
    /\ nextId = 1
    /\ op = "init"
    /\ args = EmptyObj
    /\ ret = RetUndefined
    /\ saved = TRUE
    /\ NoNotifications

StorageOps ==
    \/ \E c \in BOOLEAN, c1 \in BOOLEAN, c2 \in BOOLEAN, ok \in BOOLEAN :
         ClearAllData(c, c1, c2, ok)
    \/ \E a \in BOOLEAN : InitStorage(a)
    \/ PageLoad

\* the storage calls the pages around a domain module make: a confirmed clear,
\* the start-up initialisation, a navigation
PageOps ==
    \/ ClearAllData(TRUE, TRUE, TRUE, TRUE)
    \/ InitStorage(TRUE)
    \/ PageLoad

\* ids and day names the planner is called with
MealIds == {1, 2}
DayArgs == {"Monday", "Funday"}

\* the storage interface, with one handler that writes through what it loaded
NextStorage ==
    \/ \E s \in Sections : \E v \in SampleValues(s) : \E ok \in BOOLEAN :
         UpdateData(s, v, ok)
    \/ \E d \in DayArgs, ok \in BOOLEAN : ClearDay(d, ok)
    \/ StorageOps

SpecStorage == Init /\ [][NextStorage]_vars

\* what the meal form is submitted with, and a caller that passes an id along
Soup ==
    [title |-> "Soup", type |-> "dinner", dietary |-> <<"vegan">>,
     mainIngredients |-> <<"Tofu">>, ingredients |-> <<"Milk", "rice">>]
Toast ==
    [title |-> "Toast", type |-> "breakfast", dietary |-> <<>>,
     mainIngredients |-> <<"Bread">>, ingredients |-> <<"milk">>]
MealInputs == {Soup, Spread(Toast, [id |-> 1])}
MealEdits == {[id |-> 2]}
Ids == 1..MaxId

NextMeals ==
    \/ \E m \in MealInputs, ok \in BOOLEAN : AddMeal(m, ok)
    \/ \E i \in Ids, m \in MealEdits, ok \in BOOLEAN : UpdateMeal(i, m, ok)
    \/ \E i \in Ids, ok \in BOOLEAN : DeleteMeal(i, ok)
    \/ \E i \in Ids, ok \in BOOLEAN : ToggleFavourite(i, ok)
    \/ PageOps

SpecMeals == Init /\ [][NextMeals]_vars

\* what the task form is submitted with; the due date is optional
Frequencies == {"once", "daily", "weekly", "fortnightly", "monthly", "quarterly", "yearly"}
DueDates == {0, 90, 200}
TaskInputs ==
    {[name |-> "Bins", frequency |-> f, dueDate |-> 90] : f \in {"once", "weekly"}}
    \cup {[name |-> "Bins", frequency |-> "weekly"]}
TaskIds == {1, 2}

\* the cleaning page: type is left at its default
NextTasks ==
    \/ \E t \in TaskInputs, ok \in BOOLEAN : AddTask(t, "cleaning", ok)
    \/ \E i \in TaskIds, ok \in BOOLEAN : ToggleTaskComplete(i, "cleaning", ok)
    \/ \E i \in TaskIds, ok \in BOOLEAN : DeleteTask(i, "cleaning", ok)
    \/ PageOps

SpecTasks == Init /\ [][NextTasks]_vars

\* the maintenance page, in any time zone: one task of any frequency, as
\* addTask stores it, completed again and again
InitDue ==
    /\ \E f \in Frequencies, d \in DueDates :
         store = SaveData(<<>>,
                     SetProp(InitialDefaultData, "maintenanceTasks",
                         <<[id |-> 1, name |-> "Bins", frequency |-> f, dueDate |-> d,
                            completed |-> FALSE, lastCompleted |-> Null,
                            createdDate |-> ISO(0)]>>),
                     TRUE)
    /\ defaultData = InitialDefaultData
    /\ tz \in Zones
    /\ now \in Days
    /\ nextId = 2
    /\ op = "init"
    /\ args = EmptyObj
    /\ ret = RetUndefined
    /\ saved = TRUE
    /\ NoNotifications

NextDue == \E ok \in BOOLEAN : ToggleTaskComplete(1, "maintenance", ok)

SpecDue == InitDue /\ [][NextDue]_vars


NextPlanner ==
    \/ \E d \in DayArgs, m \in MealIds, ok \in BOOLEAN : AddMealToDay(d, m, ok)
    \/ \E d \in DayArgs, m \in MealIds, ok \in BOOLEAN : RemoveMealFromDay(d, m, ok)
    \/ \E d \in DayArgs, ok \in BOOLEAN : ClearDay(d, ok)
    \/ \E ok \in BOOLEAN : ClearWeek(ok)
    \/ \E v \in SamplePlans, ok \in BOOLEAN : UpdateData("weeklyPlan", v, ok)
    \/ \E f \in ImportFiles, ok \in BOOLEAN : ImportData(f, ok)
    \/ PageOps

SpecPlanner == Init /\ [][NextPlanner]_vars

\* the shopping page over a catalogue and a plan: two meals as addMeal leaves
\* them, a plan of one or of several entries (one naming no meal).  They are
\* in the stored document, or, storage having refused every write of the
\* session so far, only in defaultData, where the add operations pushed them
StoredMeals ==
    <<Spread([id |-> 1], Spread(Soup, [dateAdded |-> ISO(0), lastMade |-> Null])),
      Spread([id |-> 2], Spread(Toast, [dateAdded |-> ISO(0), lastMade |-> Null]))>>
StoredPlans ==
    {[d \in Range(DAYS) |-> IF d = "Monday" THEN <<2>> ELSE <<>>],
     [d \in Range(DAYS) |-> IF d = "Monday" THEN <<1, 2>>
                            ELSE IF d = "Sunday" THEN <<2, 9>> ELSE <<>>]}
ItemInputs == {[name |-> "MILK", quantity |-> "2", category |-> "food", price |-> 3]}
ItemIds == {3}

InitShopping ==
    /\ \E p \in StoredPlans, stored \in BOOLEAN :
         LET doc == Spread(InitialDefaultData, [meals |-> StoredMeals, weeklyPlan |-> p])
         IN  /\ store = SaveData(<<>>, doc, stored)
             /\ defaultData = IF stored THEN InitialDefaultData ELSE doc
    /\ nextId = 3
    /\ tz = London
    /\ now = 0
    /\ op = "init"
    /\ args = EmptyObj
    /\ ret = RetUndefined
    /\ saved = TRUE
    /\ NoNotifications

NextShopping ==
    \/ \E i \in ItemInputs, ok \in BOOLEAN : AddShoppingItem(i, ok)
    \/ \E i \in ItemIds, ok \in BOOLEAN : ToggleItemChecked(i, ok)
    \/ \E i \in ItemIds, ok \in BOOLEAN : RemoveItem(i, ok)
    \/ \E ok \in BOOLEAN : ClearCheckedItems(ok)
    \/ GetTotalCost
    \/ \E oks \in [1..Len(Ingredients(GetData("weeklyPlan"), GetData("meals"))) -> BOOLEAN] :
         GenerateFromMealPlan(oks)
    \/ PageLoad

SpecShopping == InitShopping /\ [][NextShopping]_vars

\* the settings page: backups are imported, between other uses of the app.
\* The files are text that is not JSON, JSON values of every type, and
\* objects: a whole backup, one without settings, one with partial settings
Backup ==
    Spread(InitialDefaultData,
           [meals |-> StoredMeals,
            weeklyPlan |-> [d \in Range(DAYS) |-> IF d = "Monday" THEN <<1>> ELSE <<>>],
            settings |-> Spread(InitialDefaultData.settings, [notifyMeals |-> FALSE])])
ImportInputs ==
    {[kind |-> k] : k \in {"malformed", "null", "number", "string", "boolean"}}
    \cup {[kind |-> "array", data |-> [i \in {"0"} |-> 7]],
          [kind |-> "object", data |-> Backup],
          [kind |-> "object", data |-> [shoppingList |-> <<>>]],
          [kind |-> "object", data |-> [settings |-> [notificationsEnabled |-> TRUE]]]}

NextImport ==
    \/ \E f \in ImportInputs, ok \in BOOLEAN : ImportData(f, ok)
    \/ \E ok \in BOOLEAN : AddMeal(Soup, ok)
    \/ \E v \in SampleSettings, ok \in BOOLEAN : UpdateData("settings", v, ok)
    \/ PageOps

SpecImport == Init /\ [][NextImport]_vars

\* the three collections side by side, on a first visit or over a stored
\* document with a meal, a task and a shopping item as the add operations
\* store them; the operations that look a record up by id are called with
\* ids that are in the collection and ids that are not
LookupIds == {1, 3}
StoredTask ==
    [id |-> 2, name |-> "Bins", frequency |-> "once", dueDate |-> 90,
     completed |-> FALSE, lastCompleted |-> Null, createdDate |-> ISO(0)]
StoredItem ==
    [id |-> 3, name |-> "MILK", quantity |-> "2", category |-> "food", price |-> 3,
     checked |-> FALSE, addedDate |-> ISO(0)]

InitCollections ==
    /\ \/ store = <<>>
       \/ store = SaveData(<<>>,
                      Spread(InitialDefaultData,
                             [meals |-> <<StoredMeals[1]>>,
                              cleaningTasks |-> <<StoredTask>>,
                              shoppingList |-> <<StoredItem>>]),
                      TRUE)
    /\ defaultData = InitialDefaultData
    /\ nextId = 4
    /\ tz = London
    /\ now = 0
    /\ op = "init"
    /\ args = EmptyObj
    /\ ret = RetUndefined
    /\ saved = TRUE
    /\ NoNotifications

NextCollections ==
    \/ \E i \in LookupIds, m \in MealEdits, ok \in BOOLEAN : UpdateMeal(i, m, ok)
    \/ \E i \in LookupIds, ok \in BOOLEAN : ToggleFavourite(i, ok)
    \/ \E i \in LookupIds \cup {2}, ok \in BOOLEAN : ToggleTaskComplete(i, "cleaning", ok)
    \/ \E i \in LookupIds, ok \in BOOLEAN : ToggleItemChecked(i, ok)
    \/ \E i \in ItemInputs, ok \in BOOLEAN : AddShoppingItem(i, ok)
    \/ PageLoad

SpecCollections == InitCollections /\ [][NextCollections]_vars

\* the meals page over a stored catalogue: the filter form sends any
\* combination of a type ("all" and the empty choice included), dietary tags, a main
\* ingredient and a search text
Part(key, values) == {EmptyObj} \cup {[k \in {key} |-> v] : v \in values}
FilterInputs ==
    {Spread(Spread(t, d), Spread(i, q)) :
        t \in Part("type", {"all", "dinner", ""}),
        d \in Part("dietary", {<<>>, <<"vegan">>}),
        i \in Part("ingredient", {"to", "BREAD"}),
        q \in Part("search", {"p m", "MILK", "oa"})}

InitFilter ==
    /\ store = SaveData(<<>>, SetProp(InitialDefaultData, "meals", StoredMeals), TRUE)
    /\ defaultData = InitialDefaultData
    /\ nextId = 3
    /\ tz = London
    /\ now = 0
    /\ op = "init"
    /\ args = EmptyObj
    /\ ret = RetUndefined
    /\ saved = TRUE
    /\ NoNotifications

NextFilter ==
    \/ \E f \in FilterInputs : FilterMeals(f)
    \/ \E i \in MealIds : DeleteMeal(i, TRUE)
    \/ \E i \in MealIds : ToggleFavourite(i, TRUE)

SpecFilter == InitFilter /\ [][NextFilter]_vars

\* the pages that load notifications.js: nothing stored, or a document with
\* two tasks due on day 0 and one completed, meals planned for Tuesday only,
\* and a shopping list with one item more than the nudge needs, the first k
\* of them checked
NudgeOver == 5
NotifyItems(k) ==
    [i \in 1..(NudgeOver + 1) |->
        [id |-> i, name |-> "MILK", quantity |-> "2", category |-> "food",
         checked |-> i <= k, addedDate |-> ISO(0)]]
NotifyTask(id, due, done) ==
    [id |-> id, name |-> "Bins", frequency |-> "once", dueDate |-> due,
     reminder |-> TRUE, completed |-> done, lastCompleted |-> Null,
     createdDate |-> ISO(0)]
NotifyDocs ==
    {Spread(InitialDefaultData,
            [shoppingList |-> NotifyItems(k),
             cleaningTasks |-> <<NotifyTask(1, 0, FALSE)>>,
             maintenanceTasks |-> <<NotifyTask(2, 0, FALSE), NotifyTask(3, 0, TRUE)>>,
             weeklyPlan |-> SetProp(InitialDefaultData.weeklyPlan, "Tuesday", <<1>>),
             settings |-> Spread(InitialDefaultData.settings,
                                 [notificationsEnabled |-> e, notifyShopping |-> s])]) :
        k \in {0, 1}, e \in BOOLEAN, s \in BOOLEAN}

\* the tasks scheduleTaskReminder is called with, and the hours of the calls
ReminderTasks ==
    {NotifyTask(1, 0, FALSE), NotifyTask(1, 1, FALSE),
     SetProp(NotifyTask(1, 0, FALSE), "reminder", FALSE),
     [id |-> 1, name |-> "Bins", reminder |-> TRUE]}
Hours == {9, 10}

\* the state after the page has loaded and initNotifications() has run
InitNotify ==
    /\ store \in {<<>>} \cup {SaveData(<<>>, d, TRUE) : d \in NotifyDocs}
    /\ defaultData = InitialDefaultData
    /\ tz = London
    /\ now \in {0, 1}
    /\ nextId = 4
    /\ supported \in BOOLEAN
    /\ permission \in IF supported THEN Permissions ELSE {"default"}
    /\ interval = StartsPolling
    /\ created = IF StartsPolling THEN DueSummary(InitialDefaultData) ELSE <<>>
    /\ fetched = <<>>
    /\ tabs = [t \in Tabs |-> IdleTab]
    /\ op = "initNotifications"
    /\ args = EmptyObj
    /\ ret = RetUndefined
    /\ saved = TRUE

NextNotify ==
    \/ \E o \in {EmptyObj, [tag |-> "hello"]} : ShowNotification("Hello", o)
    \/ \E task \in ReminderTasks, h \in Hours : ScheduleTaskReminder(task, h)
    \/ CheckDueTasks
    \/ \E h \in Hours : RemindMealPlanning(h)
    \/ RemindShopping
    \/ \E a \in Answers, ok \in BOOLEAN : RequestPermission(a, ok)
    \/ \E ok \in BOOLEAN : DisableNotifications(ok)
    \/ InitNotifications
    \/ Poll
    \/ \E p \in Permissions : PermissionChange(p)

SpecNotify == InitNotify /\ [][NextNotify]_vars

\* the server: requests with and without the fields the handler reads, and
\* what the upstream API can do with the PUT: no response, a JSON response of
\* a success (with the content created) or of an error (with a message), a
\* body that is not JSON
MealBodies ==
    {[type |-> ty, title |-> ti] : ty \in {"Dinner", "dinner"},
                                   ti \in {"Spicy Tofu!", "Soup", "p m",
                                           "- Milk & rice -", "!!"}}
        \cup {[title |-> "Soup"], [type |-> "Dinner"]}
Statuses == {200, 201, 404, 409, 422, 503}
Urls == {"https://github.com/o/r/blob/main/meals/a.json",
         "https://github.com/o/r/blob/main/meals/b.json"}
Messages == {"Not Found", "Invalid request"}
UpstreamAnswers ==
    {[kind |-> "failed"]}
        \cup {[kind |-> "answered", status |-> s, json |-> FALSE] : s \in Statuses}
        \cup {[kind |-> "answered", status |-> s, json |-> TRUE,
                 body |-> [content |-> [html_url |-> u]]] :
                 s \in {t \in Statuses : IsOk(t)}, u \in Urls}
        \cup {[kind |-> "answered", status |-> s, json |-> TRUE,
                 body |-> [message |-> m]] :
                 s \in {t \in Statuses : ~IsOk(t)}, m \in Messages}

NextServer == \E meal \in MealBodies, answer \in UpstreamAnswers : SaveMeal(meal, answer)

SpecServer == Init /\ [][NextServer]_vars

\* two tabs of the meals page, over nothing stored or the document
\* initStorage() writes; each adds meals, a step at a time, in any interleaving
TabMeals == {Soup, Toast}

InitTabs ==
    /\ store \in {<<>>, SaveData(<<>>, InitialDefaultData, TRUE)}
    /\ defaultData = InitialDefaultData
    /\ tz = London
    /\ now = 0
    /\ nextId = 1
    /\ op = "init"
    /\ args = EmptyObj
    /\ ret = RetUndefined
    /\ saved = TRUE
    /\ NoNotifications

NextTabs ==
    \/ \E t \in Tabs, m \in TabMeals : TabGetMeals(t, m)
    \/ \E t \in Tabs : TabLoadData(t)
    \/ \E t \in Tabs, ok \in BOOLEAN : TabSaveData(t, ok)

SpecTabs == InitTabs /\ [][NextTabs]_vars

\* the settings page: exports, between changes to the meals and page loads,
\* over nothing stored, the document initStorage() writes, or a backup made
\* by hand that holds only a plan
InitExport ==
    /\ store \in {<<>>, SaveData(<<>>, InitialDefaultData, TRUE),
                  <<[weeklyPlan |-> [d \in {"Sunday"} |-> <<2>>]]>>}
    /\ defaultData = InitialDefaultData
    /\ tz = London
    /\ now \in Days
    /\ nextId = 1
    /\ op = "init"
    /\ args = EmptyObj
    /\ ret = RetUndefined
    /\ saved = TRUE
    /\ NoNotifications

NextExport ==
    \/ \E thrown \in BOOLEAN, ok \in BOOLEAN : ExportData(thrown, ok)
    \/ \E m \in TabMeals, ok \in BOOLEAN : AddMeal(m, ok)
    \/ \E i \in MealIds, ok \in BOOLEAN : DeleteMeal(i, ok)
    \/ PageOps

SpecExport == InitExport /\ [][NextExport]_vars

\* the meals page and the planner together, from nothing stored: meals are
\* added and deleted, and planned only while they are in the catalogue
InCatalogue(mealId) ==
    \E i \in DOMAIN GetData("meals") : GetData("meals")[i].id = mealId

\* addMealToDay as the meals page calls it: for a meal it lists
PlanMeal(day, mealId, ok) == InCatalogue(mealId) /\ AddMealToDay(day, mealId, ok)

NextCatalogue ==
    \/ \E ok \in BOOLEAN : AddMeal(Soup, ok)
    \/ \E i \in MealIds, ok \in BOOLEAN : DeleteMeal(i, ok)
    \/ \E i \in MealIds, ok \in BOOLEAN : PlanMeal("Monday", i, ok)
    \/ \E i \in MealIds, ok \in BOOLEAN : RemoveMealFromDay("Monday", i, ok)
    \/ \E ok \in BOOLEAN : ClearDay("Monday", ok)
    \/ \E ok \in BOOLEAN : ClearWeek(ok)

SpecCatalogue == Init /\ [][NextCatalogue]_vars

----------------------------------------------------------------------------
\* C1, as claimed: once updateData(section, v) has returned true,
\* getData(section) returns a value equal to v.
C1_RoundTripExact ==
    (op = "updateData" /\ ret.value) => GetData(args.section) = args.value

\* the properties of v that JSON.stringify keeps
Kept(section, v) == IF section = "settings" THEN JsonObj(v) ELSE v

\* C1, amended: once updateData(section, v) has returned true, getData of a
\* list section equals v; getData of weeklyPlan or settings has every property
\* JSON keeps of v with v's value, and each further property it has is a
\* property of the in-memory default object, with that object's value.
C1_RoundTripMerged ==
    (op = "updateData" /\ ret.value) =>
        LET s == args.section
            v == Kept(s, args.value)
            got == GetData(s)
        IN  IF s \in ListSections THEN got = v
            ELSE /\ DOMAIN v \subseteq DOMAIN got
                 /\ \A k \in DOMAIN v : got[k] = v[k]
                 /\ \A k \in DOMAIN got \ DOMAIN v :
                        k \in DOMAIN defaultData[s] /\ got[k] = defaultData[s][k]

\* a weeklyPlan lacking weekday keys was written and read back with them
C1_Witness ==
    /\ op = "updateData" /\ ret.value /\ args.section = "weeklyPlan"
    /\ DOMAIN args.value # DOMAIN GetData("weeklyPlan")
    /\ "Funday" \in DOMAIN defaultData.weeklyPlan

----------------------------------------------------------------------------
\* C2, as claimed: whenever the store holds no document, loadData() returns
\* the hard-coded defaults (every list empty, the seven weekdays present and
\* empty, the default settings).
C2_EmptyStoreLoadsDefaults ==
    store = <<>> => LoadData(store, defaultData) = InitialDefaultData

\* the domain operations, and the section each one writes
DomainOps ==
    {"addMeal", "updateMeal", "deleteMeal", "toggleFavourite",
     "addTask", "toggleTaskComplete", "deleteTask",
     "addMealToDay", "removeMealFromDay", "clearDay", "clearWeek"}
Affected(o, a) ==
    IF o \in {"addMeal", "updateMeal", "deleteMeal", "toggleFavourite"} THEN "meals"
    ELSE IF o \in {"addTask", "toggleTaskComplete", "deleteTask"} THEN TaskSection(a.type)
    ELSE "weeklyPlan"

\* C3, as claimed: when the write to storage fails during a domain operation,
\* the stored document is the same as before and getData of the affected
\* section returns the same value as before the operation.
C3_FailedWriteChangesNothing ==
    [][(op' \in DomainOps /\ ~saved') =>
          /\ store' = store
          /\ GetDataOf(store', defaultData', Affected(op', args'))
               = GetDataOf(store, defaultData, Affected(op', args'))]_vars

DistinctIds(list) ==
    \A i \in DOMAIN list : \A j \in DOMAIN list : i # j => list[i].id # list[j].id

\* C7, as claimed: the ids within each collection are pairwise distinct, and
\* the record an add operation returns carries the freshly generated id.
C7_IdsUniqueAndGenerated ==
    /\ \A s \in {"meals", "shoppingList", "cleaningTasks", "maintenanceTasks"} :
          DistinctIds(GetData(s))
    /\ op \in {"addMeal", "addTask", "addShoppingItem"} => ret.value.id = nextId - 1

----------------------------------------------------------------------------
\* the day-offsets the specification states for the recurring frequencies
StatedOffset(frequency) ==
    CASE frequency = "daily" -> 1
      [] frequency = "weekly" -> 7
      [] frequency = "fortnightly" -> 14
      [] frequency = "monthly" -> 30
      [] frequency = "quarterly" -> 90
      [] frequency = "yearly" -> 365

\* the task toggleTaskComplete(taskId, type) finds among the tasks it loads
Found(tasks, taskId) == tasks[FindIndex(tasks, taskId)]

\* C4, as claimed: toggleTaskComplete on an incomplete task with due date d
\* yields dueDate = d + offset(f) and completed = false when f is recurring, in
\* any time zone and on any day, and completed = true with the same dueDate
\* when f is once.
C4_DueDateAdvancesByOffset ==
    [][(op' = "toggleTaskComplete" /\ ret'.kind = "object") =>
          LET before == Found(GetData(TaskSection(args'.type)), args'.taskId)
              after == ret'.value
          IN  ~before.completed =>
                IF before.frequency = "once"
                THEN after.completed /\ after.dueDate = before.dueDate
                ELSE /\ ~after.completed
                     /\ after.dueDate = before.dueDate + StatedOffset(before.frequency)]_vars

\* C5, as claimed: no stored task whose frequency is not once has
\* completed = true.
C5_NoRecurringTaskStoredCompleted ==
    \A s \in {"cleaningTasks", "maintenanceTasks"} :
        store # <<>> =>
            \A i \in DOMAIN store[1][s] :
                store[1][s][i].frequency # "once" => ~store[1][s][i].completed

TaskOps == {"addTask", "toggleTaskComplete", "deleteTask"}

\* C6, as claimed: a completed once-task stays completed = true across every
\* task operation that does not delete it, toggleTaskComplete on it included.
C6_OnceStaysCompleted ==
    [][(op' \in TaskOps) =>
          LET tasks == GetData(TaskSection(args'.type))
              after == GetDataOf(store', defaultData', TaskSection(args'.type))
          IN  \A i \in DOMAIN tasks :
                (/\ tasks[i].frequency = "once" /\ tasks[i].completed
                 /\ ~(op' = "deleteTask" /\ args'.taskId = tasks[i].id))
                => \E j \in DOMAIN after :
                       after[j].id = tasks[i].id /\ after[j].completed]_vars

\* C6, amended: a completed once-task is kept as it is, completed = true and
\* dueDate included, by every task operation other than toggleTaskComplete and
\* deleteTask called with its id; toggleTaskComplete called with its id returns
\* it with completed = false and the dueDate it had, and stores it so when the
\* write succeeds.
C6_OnceCompletedUntilToggledAgain ==
    [][(op' \in TaskOps) =>
          LET tasks == GetData(TaskSection(args'.type))
              after == GetDataOf(store', defaultData', TaskSection(args'.type))
              hit == FindIndex(tasks, args'.taskId)
          IN  \A i \in DOMAIN tasks :
                (tasks[i].frequency = "once" /\ tasks[i].completed) =>
                    IF op' = "addTask" \/ args'.taskId # tasks[i].id
                    THEN tasks[i] \in Range(after)
                    ELSE IF op' = "toggleTaskComplete" /\ i = hit
                    THEN /\ ret'.kind = "object"
                         /\ ret'.value = SetProp(tasks[i], "completed", FALSE)
                         /\ saved' => after = SetAt(tasks, i, ret'.value)
                    ELSE TRUE]_vars

\* a completed once-task was toggled again and is stored incomplete
C6_Witness ==
    /\ op = "toggleTaskComplete" /\ ret.kind = "object" /\ saved
    /\ ret.value.frequency = "once" /\ ~ret.value.completed
    /\ ret.value.lastCompleted # Null
    /\ ret.value \in Range(GetData("cleaningTasks"))

----------------------------------------------------------------------------
PlannerOps == {"addMealToDay", "removeMealFromDay", "clearDay", "clearWeek"}

\* C8, as claimed: the weeklyPlan loadData() returns has exactly the seven
\* keys Monday..Sunday, after planner operations with any day argument and
\* after imports.
C8_ExactlySevenWeekdays ==
    DOMAIN LoadData(store, defaultData).weeklyPlan = Range(DAYS)

\* C8, amended: the weeklyPlan loadData() returns has all seven keys
\* Monday..Sunday, after planner operations with any day argument and after
\* imports (it can have further keys).
C8_SevenWeekdaysPresent ==
    Range(DAYS) \subseteq DOMAIN LoadData(store, defaultData).weeklyPlan

\* a plan without Monday was imported: it is loaded with Monday, and with the
\* key the file added
C8_Witness ==
    /\ op = "importData" /\ ret = RetBool(TRUE)
    /\ "weeklyPlan" \in DOMAIN args.file.data
    /\ "Monday" \notin DOMAIN args.file.data.weeklyPlan
    /\ {"Monday", "Funday"} \subseteq DOMAIN LoadData(store, defaultData).weeklyPlan

NoDuplicates(list) ==
    \A i \in DOMAIN list : \A j \in DOMAIN list : i # j => list[i] # list[j]

\* C9: no day's list of the weekly plan contains the same meal id twice, and
\* addMealToDay called with an id that is already in that day returns false
\* and writes nothing.
C9_NoMealTwiceInADay ==
    /\ [](\A d \in DOMAIN GetData("weeklyPlan") : NoDuplicates(GetData("weeklyPlan")[d]))
    /\ [][(/\ op' = "addMealToDay"
           /\ args'.day \in DOMAIN GetData("weeklyPlan")
           /\ Includes(GetData("weeklyPlan")[args'.day], args'.mealId))
          => /\ ret' = RetBool(FALSE)
             /\ store' = store
             /\ defaultData' = defaultData]_vars

\* the same meal was added to a day a second time
C9_Witness ==
    /\ op = "addMealToDay" /\ ret = RetBool(FALSE)
    /\ Includes(GetData("weeklyPlan")[args.day], args.mealId)

----------------------------------------------------------------------------
----------------------------------------------------------------------------
\* C11, as claimed: a run of generateFromMealPlan adds at most one shopping
\* item per ingredient name compared ignoring case, and adds no item whose
\* name equals, ignoring case, the name of an item already in the list.
C11_OneItemPerNameIgnoringCase ==
    [][(op' = "generateFromMealPlan") =>
          LET before == GetData("shoppingList")
              after == GetDataOf(store', defaultData', "shoppingList")
              new == {i \in DOMAIN after : after[i] \notin Range(before)}
          IN  \A i \in new :
                /\ \A j \in new :
                      i # j => ToLowerCase(after[i].name) # ToLowerCase(after[j].name)
                /\ \A k \in DOMAIN before :
                      ToLowerCase(before[k].name) # ToLowerCase(after[i].name)]_vars

----------------------------------------------------------------------------
\* C12, as claimed: after importData succeeded on a JSON object D, loadData()
\* returns the defaults overlaid by D: a section present in D has D's value,
\* an absent one its default, and settings is the default settings overlaid
\* field by field with D.settings.
C12_ImportOverlaysDefaults ==
    (op = "importData" /\ ret = RetBool(TRUE) /\ args.file.kind = "object") =>
        LET D == args.file.data
            got == LoadData(store, defaultData)
        IN  \A s \in Sections :
              IF s = "settings"
              THEN got[s] = Spread(InitialDefaultData.settings, Sub(D, "settings"))
              ELSE IF s \in DOMAIN D THEN got[s] = D[s]
              ELSE got[s] = InitialDefaultData[s]

\* C13, as claimed: importData rejects every input that is not a JSON object
\* (text that does not parse, null, a number, a string, a boolean, an array)
\* and leaves the stored document as it was.
C13_NonObjectRejectedBeforeWrite ==
    [][(op' = "importData" /\ args'.file.kind # "object") =>
          ret' = RetThrow /\ store' = store]_vars

----------------------------------------------------------------------------
\* the collection an operation looks its id up in, and the id
LookupOps == {"updateMeal", "toggleFavourite", "toggleItemChecked", "toggleTaskComplete"}
LookupList(o, a) ==
    IF o \in {"updateMeal", "toggleFavourite"} THEN GetData("meals")
    ELSE IF o = "toggleItemChecked" THEN GetData("shoppingList")
    ELSE GetData(TaskSection(a.type))
LookupId(o, a) ==
    IF o \in {"updateMeal", "toggleFavourite"} THEN a.mealId
    ELSE IF o = "toggleItemChecked" THEN a.itemId
    ELSE a.taskId

\* C14: updateMeal, toggleFavourite, toggleItemChecked and toggleTaskComplete
\* called with an id that is not in the collection return null (updateMeal,
\* toggleTaskComplete) or false (the other two) and leave the stored document,
\* and what is in memory, unchanged.
C14_NotFoundChangesNothing ==
    [][(/\ op' \in LookupOps
        /\ \A i \in DOMAIN LookupList(op', args') :
               LookupList(op', args')[i].id # LookupId(op', args'))
       => /\ ret' = IF op' \in {"updateMeal", "toggleTaskComplete"}
                    THEN RetNull ELSE RetBool(FALSE)
          /\ store' = store
          /\ defaultData' = defaultData]_vars

\* an id was looked up in a collection that holds another record, and not
\* found
C14_Witness ==
    /\ op = "toggleTaskComplete" /\ ret = RetNull
    /\ GetData("cleaningTasks") # <<>>
    /\ GetData("meals") # <<>>
    /\ store # <<>>

----------------------------------------------------------------------------
\* C15, as claimed: clearAllData returns false and leaves the stored document
\* unchanged when either confirmation is declined, and the document is
\* removed only when both confirmations were given.
C15_TwoConfirmationsAlways ==
    [][(op' = "clearAllData") =>
          /\ ~(args'.c1 /\ args'.c2) => (ret' = RetBool(FALSE) /\ store' = store)
          /\ store' # store => (args'.c1 /\ args'.c2)]_vars

\* C15, amended: clearAllData called without confirmed = true returns false
\* and leaves the stored document unchanged when either confirmation is
\* declined, and removes the document only when both were given; called with
\* confirmed = true it asks nothing and removes the document.
C15_TwoConfirmationsUnlessConfirmed ==
    [][(op' = "clearAllData") =>
          /\ (~args'.confirmed /\ ~(args'.c1 /\ args'.c2))
                => (ret' = RetBool(FALSE) /\ store' = store)
          /\ store' # store => (args'.confirmed \/ (args'.c1 /\ args'.c2))
          /\ (args'.confirmed /\ ret' = RetBool(TRUE)) => store' = <<>>]_vars

\* the second confirmation was declined over a stored document
C15_Witness ==
    /\ op = "clearAllData" /\ ~args.confirmed /\ args.c1 /\ ~args.c2
    /\ ret = RetBool(FALSE) /\ store # <<>>

----------------------------------------------------------------------------
\* the sum, over the positions of the list, of the price of each unchecked
\* item (an item without a price counts 0)
RECURSIVE UncheckedSum(_, _)
UncheckedSum(list, n) ==
    IF n = 0 THEN 0
    ELSE UncheckedSum(list, n - 1)
         + (IF list[n].checked \/ "price" \notin DOMAIN list[n] THEN 0 ELSE list[n].price)

TotalCost == TotalCostOf(GetData("shoppingList"))

----------------------------------------------------------------------------
\* the predicates a filter supplies, each read on its own
TypeIs(meal, f) == meal.type = f.type
DietaryHasAll(meal, f) == Range(f.dietary) \subseteq Range(meal.dietary)
MainIngredientHas(meal, f) ==
    \E i \in DOMAIN meal.mainIngredients :
        StrIncludes(Lower(Chars(meal.mainIngredients[i])), Lower(Chars(f.ingredient)))
TextHas(meal, f) ==
    StrIncludes(Lower(Chars(meal.title) \o <<" ">> \o JoinChars(meal.ingredients)),
                Lower(Chars(f.search)))

\* C17, as claimed: filterMeals returns exactly the meals, in stored order,
\* that satisfy every supplied predicate: type equal to filters.type, dietary
\* a superset of filters.dietary, a main ingredient containing
\* filters.ingredient and the title-plus-ingredients text containing
\* filters.search, both ignoring case.
C17_FilterIsConjunction ==
    op = "filterMeals" =>
        ret.value = SelectSeq(GetData("meals"), LAMBDA meal :
                        LET f == args.filters
                        IN  /\ "type" \in DOMAIN f => TypeIs(meal, f)
                            /\ "dietary" \in DOMAIN f => DietaryHasAll(meal, f)
                            /\ "ingredient" \in DOMAIN f => MainIngredientHas(meal, f)
                            /\ "search" \in DOMAIN f => TextHas(meal, f))

\* C17, amended: as claimed, except that the type 'all' and the empty type
\* are no predicate: with them meals of every type pass the type test.
C17_FilterIsConjunctionAllAnyType ==
    op = "filterMeals" =>
        ret.value = SelectSeq(GetData("meals"), LAMBDA meal :
                        LET f == args.filters
                        IN  /\ ("type" \in DOMAIN f /\ f.type \notin {"all", ""})
                                  => TypeIs(meal, f)
                            /\ "dietary" \in DOMAIN f => DietaryHasAll(meal, f)
                            /\ "ingredient" \in DOMAIN f => MainIngredientHas(meal, f)
                            /\ "search" \in DOMAIN f => TextHas(meal, f))

\* a filter of three predicates kept one meal of two: the dinner whose main
\* ingredient has "to" and whose text has "p m" across title and ingredients
C17_Witness ==
    /\ op = "filterMeals" /\ Len(GetData("meals")) = 2 /\ Len(ret.value) = 1
    /\ {"type", "ingredient", "search"} \subseteq DOMAIN args.filters
    /\ args.filters.type = "dinner" /\ args.filters.search = "p m"

\* C18: with notifications enabled and permission granted, the check at
\* start-up and every hourly poll raise a shopping notification when more than
\* 5 shopping items are unchecked and notifyShopping is on
C18_ChecksRaiseShoppingNudge ==
    [][(/\ op' \in {"initNotifications", "poll"}
        /\ supported'
        /\ permission' = "granted"
        /\ GetDataOf(store', defaultData', "settings").notificationsEnabled
        /\ GetDataOf(store', defaultData', "settings").notifyShopping
        /\ Len(SelectSeq(GetDataOf(store', defaultData', "shoppingList"),
                         LAMBDA item : ~item.checked)) > NudgeOver)
       => \E i \in DOMAIN created' : created'[i].tag = "shopping"]_vars

\* the calls of the notification module that can show a notification
NotifyCalls ==
    {"showNotification", "scheduleTaskReminder", "checkDueTasks", "remindMealPlanning",
     "remindShopping", "requestPermission", "initNotifications", "poll"}

\* C19: while the permission is not granted or the platform has no
\* notifications, no call of the notification module creates a notification,
\* and requestPermission does not turn settings.notificationsEnabled on (it
\* writes nothing)
C19_NoNotificationWithoutPermission ==
    [][(op' \in NotifyCalls /\ (~supported' \/ permission' # "granted"))
       => /\ created' = <<>>
          /\ op' = "requestPermission"
                => /\ GetDataOf(store', defaultData', "settings").notificationsEnabled
                        = GetData("settings").notificationsEnabled
                   /\ store' = store
                   /\ defaultData' = defaultData]_vars

\* notifications were enabled and the timer set, the permission was then
\* withdrawn: a poll with tasks due today has created nothing
C19_Witness ==
    /\ op = "poll"
    /\ permission = "denied"
    /\ GetData("settings").notificationsEnabled
    /\ Len(DueTasks(defaultData, now)) > 0
    /\ created = <<>>

\* the upstream response of the last request
Answered == op = "save-meal" /\ fetched # <<>> /\ args.answer.kind = "answered"

\* C20: for a request that reached the upstream API, a 2xx answer gives
\* {success: true, url} with the web URL of the created resource, any other
\* answer gives its status code and its message as {error}; one upstream write
\* was made
C20_UpstreamAnswerRelayed ==
    Answered =>
        LET answer == args.answer
        IN  /\ Len(fetched) = 1
            /\ fetched[1].method = "PUT"
            /\ IF IsOk(answer.status)
               THEN /\ ret.status = 200
                    /\ DOMAIN ret.body = {"success", "url"}
                    /\ ret.body.success
                    /\ (answer.json /\ "content" \in DOMAIN answer.body)
                          => ret.body.url = answer.body.content.html_url
               ELSE /\ ret.status = answer.status
                    /\ (answer.json /\ "message" \in DOMAIN answer.body)
                          => ret.body = [error |-> answer.body.message]

\* the same for the answers whose body is JSON
C20_JsonAnswerRelayed == (Answered /\ args.answer.json) => C20_UpstreamAnswerRelayed

\* the slug as stated: the title in lower case, its word characters kept, every
\* maximal run of other characters that has word characters on both sides
\* become one hyphen, the runs at the two ends dropped
StatedSlug(title) ==
    LET text == Lower(title)
        n == Len(text)
        IsWord(i) == text[i] \in WordChars
        RunStart(i) == ~IsWord(i) /\ (i = 1 \/ IsWord(i - 1))
        Inner(i) == (\E j \in 1..i : IsWord(j)) /\ (\E j \in i..n : IsWord(j))
    IN  Concat([i \in 1..n |->
                   IF IsWord(i) THEN <<text[i]>>
                   ELSE IF RunStart(i) /\ Inner(i) THEN <<"-">>
                   ELSE <<>>])

\* C21: the path the handler writes to is meals/<type in lower case>/<slug>.json,
\* the slug being the title in lower case with every maximal run of non-word
\* characters replaced by one hyphen and the hyphens at its ends removed; for
\* the title "Spicy Tofu!" and the type "Dinner" it is
\* meals/dinner/spicy-tofu.json
C21_PathIsTypeAndSlug ==
    (op = "save-meal" /\ fetched # <<>>) =>
        /\ fetched[1].path
             = <<"m", "e", "a", "l", "s", "/">> \o Lower(Chars(args.meal.type))
                   \o <<"/">> \o StatedSlug(Chars(args.meal.title))
                   \o <<".", "j", "s", "o", "n">>
        /\ (args.meal.title = "Spicy Tofu!" /\ args.meal.type = "Dinner")
             => fetched[1].path
                  = <<"m", "e", "a", "l", "s", "/", "d", "i", "n", "n", "e", "r", "/",
                      "s", "p", "i", "c", "y", "-", "t", "o", "f", "u",
                      ".", "j", "s", "o", "n">>

\* a meal whose title has runs of several non-word characters inside and at
\* both ends has been written upstream
C21_Witness ==
    /\ op = "save-meal"
    /\ fetched # <<>>
    /\ args.meal.title = "- Milk & rice -"
    /\ fetched[1].path
         = <<"m", "e", "a", "l", "s", "/", "d", "i", "n", "n", "e", "r", "/",
             "m", "i", "l", "k", "-", "r", "i", "c", "e", ".", "j", "s", "o", "n">>

\* list holds an element with this id
Has(list, id) == \E i \in DOMAIN list : list[i].id = id

\* both tabs have finished an addMeal (it returned its new meal, and its write
\* succeeded), and each had read the collection before the other wrote:
\* neither worked on an array holding the other's meal
Raced ==
    /\ \A t \in Tabs : tabs[t].pc = "done" /\ tabs[t].saved
    /\ ~Has(tabs[1].meals, tabs[2].newMeal.id)
    /\ ~Has(tabs[2].meals, tabs[1].newMeal.id)

\* the meals a page loaded now would read
MealsStored == GetDataOf(store, InitialDefaultData, "meals")

\* C22: when the reads and writes of two tabs' addMeal calls interleave, each
\* reading the collection before the other writes, both calls return their
\* meal and the stored document holds the meal of exactly one of them
C22_RaceLosesOneUpdate ==
    Raced => Has(MealsStored, tabs[1].newMeal.id) # Has(MealsStored, tabs[2].newMeal.id)

\* the lost update is reached: both calls succeeded and tab 1's meal is not
\* in the stored document
C22_Witness ==
    /\ Raced
    /\ ~Has(MealsStored, tabs[1].newMeal.id)
    /\ Has(MealsStored, tabs[2].newMeal.id)

\* an export that returned true and whose write succeeded leaves every section
\* but settings, and every settings field but lastExport, as it was
ExportKeepsTheRest ==
    (op' = "exportData" /\ ret'.value /\ saved') =>
        /\ \A s \in Sections \ {"settings"} :
               GetDataOf(store', defaultData', s) = GetData(s)
        /\ \A k \in DOMAIN GetData("settings") \ {"lastExport"} :
               GetDataOf(store', defaultData', "settings")[k] = GetData("settings")[k]

\* C23: a successful exportData changes the persisted document only in
\* settings.lastExport: every other section and settings field is as before,
\* and the document has the top-level keys it had (the export timestamp goes
\* to the downloaded file only)
C23_ExportChangesOnlyLastExport ==
    [][(op' = "exportData" /\ ret'.value /\ saved') =>
          /\ ExportKeepsTheRest
          /\ DOMAIN LoadData(store', defaultData') = DOMAIN LoadData(store, defaultData)]_vars

\* what does hold: all but the top-level keys
C23_ExportKeepsSectionsAndSettings == [][ExportKeepsTheRest]_vars

\* C24: after any sequence of addMeal, deleteMeal, addMealToDay (of meals in
\* the catalogue), removeMealFromDay, clearDay and clearWeek, every meal id in
\* a day of weeklyPlan is the id of a meal in meals
C24_PlannedMealsExist ==
    \A d \in DOMAIN GetData("weeklyPlan") :
        \A i \in DOMAIN GetData("weeklyPlan")[d] :
            InCatalogue(GetData("weeklyPlan")[d][i])

====
